---- MODULE Spec2Model ----
(***************************************************************************)
(* Ledger operations of bank-api (internal/storage/storage.go):            *)
(* PostgresStorage.Deposit, Withdraw and Transfer, run by concurrent       *)
(* request goroutines against the accounts and transactions tables.        *)
(* Each SQL statement is one atomic step; the Go code between two          *)
(* statements is local and belongs to the step of the statement before it. *)
(* No statement runs inside a database transaction and no row is locked.   *)
(***************************************************************************)
EXTENDS Integers, Sequences, FiniteSets, TLC

(* ------------------------------ bounds --------------------------------- *)
NumProcs == 2
NumAccounts == 2
MaxAmount == 2
MaxInitial == 1
MaxCalls == 2
MaxQueries == 1
MaxAccountCalls == 2

Procs == 1..NumProcs
\* rows of the accounts table (ids are SERIAL, starting at 1)
Accounts == 1..NumAccounts
\* ids a caller can name; the last one has no row in accounts
Ids == 1..(NumAccounts + 1)
\* amounts a caller can send: strconv.Atoi accepts negatives and zero
Amounts == (-1)..MaxAmount
\* values of accounts.login: account id starts with login id, one is free
Logins == 1..(NumAccounts + 1)
Passwords == {"x", "y"}
\* the signed JWT strings clients hold
Tokens == {"t"}

(* ------------------------------ results -------------------------------- *)
Ok == "ok"
ErrInvalidAmount == "invalid amount"
ErrDb == "db error"
ErrScan == "scan error"
ErrAccessDenied == "access denied"
ErrNonUnique == "non unique data"
ErrMismatch == "hashedPassword is not the hash of the given password"
ErrTokenInvalid == "token is invalid"
None == "none"

(* ------------------------------- state --------------------------------- *)
VARIABLES
  accounts,      \* accounts.balance, by account id
  transactions,  \* rows of the transactions table, in insertion order
  seq,           \* last value handed out by the SERIAL of transactions.id
  pc,            \* position of each request goroutine
  req,           \* the call a goroutine is running: kind, fromId, toId, amount
  balance,       \* local "balance" of Deposit / Withdraw
  fromBalance,   \* local "fromBalance" of Transfer
  toBalance,     \* local "toBalance" of Transfer
  result,        \* error value the call returned
  initial,       \* history: balances when the server started
  ncalls,        \* history: number of calls issued so far
  okDeposits,    \* history: sum of amounts of Deposits that returned nil
  okWithdraws,   \* history: sum of amounts of Withdraws that returned nil
  obs,           \* history of the current call of each goroutine
  view,          \* what ListTransactions / GetTransaction returned
  nqueries,      \* history: number of queries and account calls issued
  logins,        \* accounts.login, by account id
  passwords,     \* accounts.password (the bcrypt hash), by account id
  tokens,        \* the tokens table: the disabled tokens
  accSeq,        \* last value handed out by the SERIAL of accounts.id
  password       \* local "password" of UpdatePassword

vars == <<accounts, transactions, seq, pc, req, balance, fromBalance,
          toBalance, result, initial, ncalls, okDeposits, okWithdraws, obs,
          view, nqueries, logins, passwords, tokens, accSeq, password>>

locals == <<balance, fromBalance, toBalance>>
sums == <<okDeposits, okWithdraws>>
queryVars == <<view, nqueries>>
authVars == <<logins, passwords, tokens, accSeq, password>>

NoReq == [kind |-> None, fromId |-> 0, toId |-> 0, amount |-> 0]

\* atCheck: the stored balance of the source at the moment the call made
\* its sufficiency check, -1 while it has made none.
\* rows: ids of the transactions rows the call inserted.
\* atDebit: the stored balance of the source at the moment the call wrote
\* its debit, -1 while it has written none.
\* log: the transactions table as the SELECT of a query found it
NoObs == [solo |-> TRUE, pre |-> [a \in Accounts |-> 0], preLog |-> 0,
          stmts |-> 0, effects |-> {}, atCheck |-> -1, rows |-> {},
          log |-> <<>>, atDebit |-> -1]

Quiescent == \A p \in Procs : pc[p] \in {"idle", "done"}

RECURSIVE SumOver(_, _)
SumOver(f, S) ==
  IF S = {} THEN 0
  ELSE LET a == CHOOSE x \in S : TRUE IN f[a] + SumOver(f, S \ {a})

Total(f) == SumOver(f, Accounts)

\* bcrypt.GenerateFromPassword: a salted hash, never the password itself
hashPassword(pw) == [bcrypt |-> pw]

\* bcrypt.CompareHashAndPassword returns nil; "" is no bcrypt hash
CompareHashAndPassword(hash, pw) == hash = hashPassword(pw)

(* ------------------------------- Init ---------------------------------- *)
Init ==
  /\ accounts \in [Accounts -> 0..MaxInitial]
  /\ transactions = <<>>
  /\ seq = 0
  /\ pc = [p \in Procs |-> "idle"]
  /\ req = [p \in Procs |-> NoReq]
  /\ balance = [p \in Procs |-> 0]
  /\ fromBalance = [p \in Procs |-> 0]
  /\ toBalance = [p \in Procs |-> 0]
  /\ result = [p \in Procs |-> None]
  /\ initial = accounts
  /\ ncalls = 0
  /\ okDeposits = [a \in Accounts |-> 0]
  /\ okWithdraws = [a \in Accounts |-> 0]
  /\ obs = [p \in Procs |-> NoObs]
  /\ view = [p \in Procs |-> <<>>]
  /\ nqueries = 0
  /\ logins = [id \in Accounts |-> id]
  /\ passwords = [id \in Accounts |-> hashPassword("x")]
  /\ tokens = {}
  /\ accSeq = NumAccounts
  /\ password = [p \in Procs |-> ""]

(* --------------------------- SQL statements ---------------------------- *)
\* SELECT balance FROM accounts WHERE id = $1, scanned into a zeroed int:
\* no row leaves the Go zero value
SelectBalance(id) == IF id \in DOMAIN accounts THEN accounts[id] ELSE 0

\* UPDATE accounts SET balance = $1 WHERE id = $2: no row, no change, no error
UpdateBalance(acc, id, newBalance) ==
  IF id \in DOMAIN acc THEN [acc EXCEPT ![id] = newBalance] ELSE acc

addTransaction_NoAdvance(transactionType, from, to, amount) ==
  /\ seq' = seq
  /\ transactions' = Append(transactions,
        [id |-> seq + 1, type |-> transactionType,
         from |-> from, to |-> to, amount |-> amount])

addTransaction_Replace(transactionType, from, to, amount) ==
  /\ seq' = seq + 1
  /\ transactions' = <<[id |-> seq + 1, type |-> transactionType,
                        from |-> from, to |-> to, amount |-> amount]>>

\* INSERT INTO transactions (...) VALUES (...): id from the SERIAL
addTransaction(transactionType, from, to, amount) ==
  /\ seq' = seq + 1
  /\ transactions' = Append(transactions,
        [id |-> seq + 1, type |-> transactionType,
         from |-> from, to |-> to, amount |-> amount])

(* ----------------------------- call entry ------------------------------ *)
\* history kept for the call p starts now. solo: no other call was in
\* progress when this one was issued and none has been issued since
StartObs(p) ==
  [q \in Procs |->
     IF q = p
       THEN [solo |-> \A r \in Procs \ {p} : pc[r] \in {"idle", "done"},
             pre |-> accounts, preLog |-> Len(transactions),
             stmts |-> 0, effects |-> {}, atCheck |-> -1, rows |-> {},
             log |-> <<>>, atDebit |-> -1]
       ELSE [obs[q] EXCEPT !.solo = FALSE]]

Issue(p, kind, from, to, amount, invalid, first) ==
  /\ pc[p] \in {"idle", "done"}
  /\ ncalls < MaxCalls
  /\ ncalls' = ncalls + 1
  /\ req' = [req EXCEPT ![p] = [kind |-> kind, fromId |-> from,
                                toId |-> to, amount |-> amount]]
  /\ obs' = StartObs(p)
  /\ balance' = [balance EXCEPT ![p] = 0]
  /\ fromBalance' = [fromBalance EXCEPT ![p] = 0]
  /\ toBalance' = [toBalance EXCEPT ![p] = 0]
  /\ IF invalid
       THEN /\ pc' = [pc EXCEPT ![p] = "done"]
            /\ result' = [result EXCEPT ![p] = ErrInvalidAmount]
       ELSE /\ pc' = [pc EXCEPT ![p] = first]
            /\ result' = [result EXCEPT ![p] = None]
  /\ UNCHANGED <<accounts, transactions, seq, initial, sums>>

Stmt(p) == [obs EXCEPT ![p].stmts = @ + 1]
StmtEffect(p, e) == [obs EXCEPT ![p].stmts = @ + 1, ![p].effects = @ \cup e]
StmtInsert(p) ==
  [obs EXCEPT ![p].stmts = @ + 1, ![p].effects = @ \cup {"insert"},
              ![p].rows = @ \cup {seq + 1}]
StmtDebit(p) ==
  [StmtEffect(p, {"debit"}) EXCEPT
     ![p].atDebit = SelectBalance(req[p].fromId)]
StmtCheck(p, id) ==
  [obs EXCEPT ![p].stmts = @ + 1, ![p].atCheck = SelectBalance(id)]

Finish(p, r) ==
  /\ pc' = [pc EXCEPT ![p] = "done"]
  /\ result' = [result EXCEPT ![p] = r]

(* ------------------------------ Deposit -------------------------------- *)
DepositInvalid_Negative(amount) == amount < 0

\* if amount <= 0 { return fmt.Errorf("invalid amount") }
DepositInvalid(amount) == amount <= 0

DepositCall(p) ==
  \E id \in Accounts, amount \in Amounts :
    Issue(p, "Deposit", id, id, amount, DepositInvalid(amount), "d_select")

DepositSelect(p) ==
  /\ pc[p] = "d_select"
  /\ balance' = [balance EXCEPT ![p] = SelectBalance(req[p].fromId) + req[p].amount]
  /\ pc' = [pc EXCEPT ![p] = "d_update"]
  /\ obs' = Stmt(p)
  /\ UNCHANGED <<accounts, transactions, seq, req, fromBalance, toBalance,
                 result, initial, ncalls, sums>>

DepositUpdate(p) ==
  /\ pc[p] = "d_update"
  /\ accounts' = UpdateBalance(accounts, req[p].fromId, balance[p])
  /\ pc' = [pc EXCEPT ![p] = "d_insert"]
  /\ obs' = StmtEffect(p, {"credit"})
  /\ UNCHANGED <<transactions, seq, req, locals, result, initial, ncalls, sums>>

DepositInsert(p) ==
  /\ pc[p] = "d_insert"
  /\ addTransaction("Deposit", req[p].fromId, req[p].toId, req[p].amount)
  /\ Finish(p, Ok)
  /\ obs' = StmtInsert(p)
  /\ okDeposits' = [okDeposits EXCEPT ![req[p].fromId] = @ + req[p].amount]
  /\ UNCHANGED <<accounts, req, locals, initial, ncalls, okWithdraws>>

(* ------------------------------ Withdraw ------------------------------- *)
WithdrawInvalid(amount) == amount <= 0

WithdrawInsufficient_OffByOne(bal, amount) == bal < amount - 1

\* if balance < amount { return fmt.Errorf("invalid amount") }
WithdrawInsufficient(bal, amount) == bal < amount

WithdrawCall(p) ==
  \E id \in Accounts, amount \in Amounts :
    Issue(p, "Withdraw", id, id, amount, WithdrawInvalid(amount), "w_select")

WithdrawSelect(p) ==
  /\ pc[p] = "w_select"
  /\ LET bal == SelectBalance(req[p].fromId) IN
       IF WithdrawInsufficient(bal, req[p].amount)
         THEN /\ balance' = [balance EXCEPT ![p] = bal]
              /\ Finish(p, ErrInvalidAmount)
         ELSE /\ balance' = [balance EXCEPT ![p] = bal - req[p].amount]
              /\ pc' = [pc EXCEPT ![p] = "w_update"]
              /\ UNCHANGED result
  /\ obs' = StmtCheck(p, req[p].fromId)
  /\ UNCHANGED <<accounts, transactions, seq, req, fromBalance, toBalance,
                 initial, ncalls, sums>>

WithdrawUpdate(p) ==
  /\ pc[p] = "w_update"
  /\ accounts' = UpdateBalance(accounts, req[p].fromId, balance[p])
  /\ pc' = [pc EXCEPT ![p] = "w_insert"]
  /\ obs' = StmtDebit(p)
  /\ UNCHANGED <<transactions, seq, req, locals, result, initial, ncalls, sums>>

WithdrawInsert_AsDeposit(p) ==
  /\ pc[p] = "w_insert"
  /\ addTransaction("Deposit", req[p].fromId, req[p].toId, req[p].amount)
  /\ Finish(p, Ok)
  /\ obs' = StmtInsert(p)
  /\ okWithdraws' = [okWithdraws EXCEPT ![req[p].fromId] = @ + req[p].amount]
  /\ UNCHANGED <<accounts, req, locals, initial, ncalls, okDeposits>>

WithdrawInsert(p) ==
  /\ pc[p] = "w_insert"
  /\ addTransaction("Withdraw", req[p].fromId, req[p].toId, req[p].amount)
  /\ Finish(p, Ok)
  /\ obs' = StmtInsert(p)
  /\ okWithdraws' = [okWithdraws EXCEPT ![req[p].fromId] = @ + req[p].amount]
  /\ UNCHANGED <<accounts, req, locals, initial, ncalls, okDeposits>>

(* ------------------------------ Transfer ------------------------------- *)
TransferInvalid(amount) == amount <= 0

\* if fromBalance-amount < 0 { return fmt.Errorf("invalid amount") }
TransferInsufficient(fromBal, amount) == fromBal - amount < 0

\* transaction_type passed to addTransaction by Transfer
TransferType == "Deposit"

\* fromId is the authenticated caller, toId the :id of the URL
TransferCall(p) ==
  \E from \in Accounts, to \in Ids, amount \in Amounts :
    Issue(p, "Transfer", from, to, amount, TransferInvalid(amount),
          "t_selectFrom")

TransferSelectFrom(p) ==
  /\ pc[p] = "t_selectFrom"
  /\ fromBalance' = [fromBalance EXCEPT ![p] = SelectBalance(req[p].fromId)]
  /\ pc' = [pc EXCEPT ![p] = "t_selectTo"]
  /\ obs' = Stmt(p)
  /\ UNCHANGED <<accounts, transactions, seq, req, balance, toBalance,
                 result, initial, ncalls, sums>>

TransferSelectTo(p) ==
  /\ pc[p] = "t_selectTo"
  /\ LET bal == SelectBalance(req[p].toId) IN
       IF TransferInsufficient(fromBalance[p], req[p].amount)
         THEN /\ toBalance' = [toBalance EXCEPT ![p] = bal]
              /\ UNCHANGED fromBalance
              /\ Finish(p, ErrInvalidAmount)
         ELSE /\ fromBalance' = [fromBalance EXCEPT ![p] = @ - req[p].amount]
              /\ toBalance' = [toBalance EXCEPT ![p] = bal + req[p].amount]
              /\ pc' = [pc EXCEPT ![p] = "t_updateFrom"]
              /\ UNCHANGED result
  /\ obs' = StmtCheck(p, req[p].fromId)
  /\ UNCHANGED <<accounts, transactions, seq, req, balance,
                 initial, ncalls, sums>>

TransferUpdateFrom(p) ==
  /\ pc[p] = "t_updateFrom"
  /\ accounts' = UpdateBalance(accounts, req[p].fromId, fromBalance[p])
  /\ pc' = [pc EXCEPT ![p] = "t_updateTo"]
  /\ obs' = StmtDebit(p)
  /\ UNCHANGED <<transactions, seq, req, locals, result, initial, ncalls, sums>>

TransferUpdateTo_NoCredit(p) ==
  /\ pc[p] = "t_updateTo"
  /\ pc' = [pc EXCEPT ![p] = "t_insert"]
  /\ obs' = Stmt(p)
  /\ UNCHANGED <<accounts, transactions, seq, req, locals, result, initial,
                 ncalls, sums>>

TransferUpdateTo(p) ==
  /\ pc[p] = "t_updateTo"
  /\ accounts' = UpdateBalance(accounts, req[p].toId, toBalance[p])
  /\ pc' = [pc EXCEPT ![p] = "t_insert"]
  /\ obs' = StmtEffect(p, IF req[p].toId \in Accounts THEN {"credit"} ELSE {})
  /\ UNCHANGED <<transactions, seq, req, locals, result, initial, ncalls, sums>>

TransferInsert(p) ==
  /\ pc[p] = "t_insert"
  /\ addTransaction(TransferType, req[p].fromId, req[p].toId, req[p].amount)
  /\ Finish(p, Ok)
  /\ obs' = StmtInsert(p)
  /\ UNCHANGED <<accounts, req, locals, initial, ncalls, sums>>

(* ------------------------------ queries -------------------------------- *)
\* models.TransactionResponse (Transferred_at left out); its zero value
ZeroView == [Id |-> 0, TransactionType |-> "", FromId |-> 0, ToId |-> 0,
             Amount |-> 0]

ViewOf_Always(row) ==
  [Id |-> row.id, TransactionType |-> row.type, FromId |-> row.from,
   ToId |-> row.to, Amount |-> row.amount]

\* rows.Scan of one transactions row, then
\* if fromId != toId { transaction.FromId = fromId; transaction.ToId = toId }
ViewOf(row) ==
  [Id |-> row.id, TransactionType |-> row.type,
   FromId |-> IF row.from # row.to THEN row.from ELSE 0,
   ToId |-> IF row.from # row.to THEN row.to ELSE 0,
   Amount |-> row.amount]

Matching_FromOnly(log, id) == {i \in 1..Len(log) : log[i].from = id}

\* WHERE from_id = $1 OR to_id = $1, as positions in the table
Matching(log, id) ==
  {i \in 1..Len(log) : log[i].from = id \/ log[i].to = id}

\* the orders in which a SELECT without ORDER BY may return the rows S
Orders(S) ==
  {o \in [1..Cardinality(S) -> S] :
     \A i, j \in 1..Cardinality(S) : i # j => o[i] # o[j]}

QueryEnter(p, r, first) ==
  /\ pc[p] \in {"idle", "done"}
  /\ nqueries < MaxQueries
  /\ nqueries' = nqueries + 1
  /\ req' = [req EXCEPT ![p] = r]
  /\ obs' = StartObs(p)
  /\ view' = [view EXCEPT ![p] = <<>>]
  /\ pc' = [pc EXCEPT ![p] = first]
  /\ result' = [result EXCEPT ![p] = None]
  /\ UNCHANGED <<accounts, transactions, seq, locals, initial, ncalls, sums>>

\* id is the authenticated caller
ListTransactionsCall(p) ==
  \E id \in Accounts :
    QueryEnter(p, [kind |-> "ListTransactions", id |-> id], "l_select")

ListTransactionsSelect(p) ==
  /\ pc[p] = "l_select"
  /\ \E o \in Orders(Matching(transactions, req[p].id)) :
       view' = [view EXCEPT ![p] =
                  [k \in 1..Len(o) |-> ViewOf(transactions[o[k]])]]
  /\ Finish(p, Ok)
  /\ obs' = [obs EXCEPT ![p].stmts = @ + 1, ![p].log = transactions]
  /\ UNCHANGED <<accounts, transactions, seq, req, locals, initial, ncalls,
                 sums, nqueries>>

\* id is the authenticated caller, transactionId the :id of the URL
GetTransactionCall(p) ==
  \E id \in Accounts, transactionId \in Ids :
    QueryEnter(p, [kind |-> "GetTransaction", id |-> id,
                   transactionId |-> transactionId], "g_select")

\* SELECT * FROM accounts WHERE id = $1 with $1 = transactionId: a row of
\* accounts has nine columns and rows.Scan is given six destinations, so
\* Scan returns an error for it and the access check after Scan is never
\* reached; with no such row the loop body does not run and the zero
\* TransactionResponse is returned with a nil error
GetTransactionSelect(p) ==
  /\ pc[p] = "g_select"
  /\ IF req[p].transactionId \in DOMAIN accounts
       THEN /\ Finish(p, ErrScan)
            /\ UNCHANGED view
       ELSE /\ Finish(p, Ok)
            /\ view' = [view EXCEPT ![p] = <<ZeroView>>]
  /\ obs' = [obs EXCEPT ![p].stmts = @ + 1, ![p].log = transactions]
  /\ UNCHANGED <<accounts, transactions, seq, req, locals, initial, ncalls,
                 sums, nqueries>>

(* ------------------- accounts, profiles and tokens --------------------- *)
\* a call of Register, Login, IsTokenValid, DisableToken, GetProfile,
\* UpdateProfile or UpdatePassword arrives
AccountEnter(p, r, first) ==
  /\ pc[p] \in {"idle", "done"}
  /\ nqueries < MaxAccountCalls
  /\ nqueries' = nqueries + 1
  /\ req' = [req EXCEPT ![p] = r]
  /\ obs' = StartObs(p)
  /\ pc' = [pc EXCEPT ![p] = first]
  /\ result' = [result EXCEPT ![p] = None]
  /\ password' = [password EXCEPT ![p] = ""]
  /\ UNCHANGED <<accounts, transactions, seq, locals, initial, ncalls, sums,
                 view, logins, passwords, tokens, accSeq>>

\* the statement at pc[p] ran and the call goes on (next) or returns (r)
AccountStep(p, next, r) ==
  /\ pc' = [pc EXCEPT ![p] = next]
  /\ result' = [result EXCEPT ![p] = r]
  /\ obs' = [obs EXCEPT ![p].stmts = @ + 1]
  /\ UNCHANGED <<transactions, seq, req, locals, initial, ncalls, sums,
                 queryVars>>

\* SELECT COUNT(*) FROM accounts WHERE login = $1; count != 0
isDataUnique(login) == \A id \in DOMAIN logins : logins[id] # login

RegisterCall(p) ==
  \E login \in Logins, pw \in Passwords :
    AccountEnter(p, [kind |-> "Register", login |-> login,
                     password |-> pw], "r_unique")

RegisterUnique(p) ==
  /\ pc[p] = "r_unique"
  /\ IF isDataUnique(req[p].login)
       THEN AccountStep(p, "r_insert", None)
       ELSE AccountStep(p, "done", ErrNonUnique)
  /\ UNCHANGED <<accounts, authVars>>

\* INSERT INTO accounts (login, ..., password, balance, created_at) with
\* balance 0; id is the next value of the SERIAL
RegisterInsert(p) ==
  /\ pc[p] = "r_insert"
  /\ LET id == accSeq + 1
         Add(col, v) == [i \in DOMAIN col \cup {id} |->
                           IF i = id THEN v ELSE col[i]]
     IN /\ accSeq' = id
        /\ accounts' = Add(accounts, 0)
        /\ logins' = Add(logins, req[p].login)
        /\ passwords' = Add(passwords, hashPassword(req[p].password))
  /\ AccountStep(p, "done", Ok)
  /\ UNCHANGED <<tokens, password>>

LoginCall(p) ==
  \E login \in Logins, pw \in Passwords :
    AccountEnter(p, [kind |-> "Login", login |-> login, password |-> pw],
                 "lg_select")

\* SELECT id, password FROM accounts WHERE login = $1: each row overwrites
\* the scanned pair, no row leaves the empty password; then the compare
LoginSelect(p) ==
  /\ pc[p] = "lg_select"
  /\ LET found == {id \in DOMAIN logins : logins[id] = req[p].login}
     IN IF \E id \in found :
             CompareHashAndPassword(passwords[id], req[p].password)
          THEN AccountStep(p, "done", Ok)
          ELSE AccountStep(p, "done", ErrMismatch)
  /\ UNCHANGED <<accounts, authVars>>

IsTokenValidCall(p) ==
  \E token \in Tokens :
    AccountEnter(p, [kind |-> "IsTokenValid", token |-> token], "tv_select")

\* SELECT COUNT(*) FROM tokens WHERE token = $1; count != 0
IsTokenValidSelect(p) ==
  /\ pc[p] = "tv_select"
  /\ IF req[p].token \in tokens
       THEN AccountStep(p, "done", ErrTokenInvalid)
       ELSE AccountStep(p, "done", Ok)
  /\ UNCHANGED <<accounts, authVars>>

DisableTokenCall(p) ==
  \E token \in Tokens :
    AccountEnter(p, [kind |-> "DisableToken", token |-> token], "dt_insert")

\* INSERT INTO tokens (token) VALUES ($1)
DisableTokenInsert(p) ==
  /\ pc[p] = "dt_insert"
  /\ tokens' = tokens \cup {req[p].token}
  /\ AccountStep(p, "done", Ok)
  /\ UNCHANGED <<accounts, logins, passwords, accSeq, password>>

GetProfileCall(p) ==
  \E id \in Accounts :
    AccountEnter(p, [kind |-> "GetProfile", id |-> id], "gp_select")

\* SELECT id, login, ..., balance, created_at FROM accounts WHERE id = $1
GetProfileSelect(p) ==
  /\ pc[p] = "gp_select"
  /\ AccountStep(p, "done", Ok)
  /\ UNCHANGED <<accounts, authVars>>

UpdateProfileCall(p) ==
  \E id \in Accounts, login \in Logins :
    AccountEnter(p, [kind |-> "UpdateProfile", id |-> id, login |-> login],
                 "up_unique")

UpdateProfileUnique(p) ==
  /\ pc[p] = "up_unique"
  /\ IF isDataUnique(req[p].login)
       THEN AccountStep(p, "up_update", None)
       ELSE AccountStep(p, "done", ErrNonUnique)
  /\ UNCHANGED <<accounts, authVars>>

UpdateProfileUpdate_SetsBalance(p) ==
  /\ pc[p] = "up_update"
  /\ logins' = [logins EXCEPT ![req[p].id] = req[p].login]
  /\ accounts' = [accounts EXCEPT ![req[p].id] = 0]
  /\ AccountStep(p, "done", Ok)
  /\ UNCHANGED <<passwords, tokens, accSeq, password>>

\* UPDATE accounts SET login = $1, first_name = $2, second_name = $3,
\* surname = $4, email = $5 WHERE id = $6
UpdateProfileUpdate(p) ==
  /\ pc[p] = "up_update"
  /\ logins' = [logins EXCEPT ![req[p].id] = req[p].login]
  /\ AccountStep(p, "done", Ok)
  /\ UNCHANGED <<accounts, passwords, tokens, accSeq, password>>

UpdatePasswordCall(p) ==
  \E id \in Accounts, old \in Passwords, new \in Passwords :
    AccountEnter(p, [kind |-> "UpdatePassword", id |-> id,
                     oldPassword |-> old, newPassword |-> new], "pw_select")

\* SELECT password FROM accounts WHERE id = $1, then the compare with the
\* old password of the request
UpdatePasswordSelect(p) ==
  /\ pc[p] = "pw_select"
  /\ password' = [password EXCEPT ![p] = passwords[req[p].id]]
  /\ IF CompareHashAndPassword(passwords[req[p].id], req[p].oldPassword)
       THEN AccountStep(p, "pw_update", None)
       ELSE AccountStep(p, "done", ErrMismatch)
  /\ UNCHANGED <<accounts, logins, passwords, tokens, accSeq>>

\* UPDATE accounts SET password = $1 WHERE id = $2
UpdatePasswordUpdate(p) ==
  /\ pc[p] = "pw_update"
  /\ passwords' = [passwords EXCEPT
                     ![req[p].id] = hashPassword(req[p].newPassword)]
  /\ AccountStep(p, "done", Ok)
  /\ UNCHANGED <<accounts, logins, tokens, accSeq, password>>

(* ------------------------- failing statements -------------------------- *)
SelectPcs == {"d_select", "w_select", "t_selectFrom", "t_selectTo",
              "l_select", "g_select"}
UpdatePcs == {"d_update", "w_update", "t_updateFrom", "t_updateTo"}
InsertPcs == {"d_insert", "w_insert", "t_insert"}

StmtFails_ReportsOk(p) ==
  /\ pc[p] \in SelectPcs \cup UpdatePcs \cup InsertPcs
  /\ Finish(p, Ok)
  /\ obs' = Stmt(p)
  /\ seq' \in (IF pc[p] \in InsertPcs THEN {seq, seq + 1} ELSE {seq})
  /\ UNCHANGED <<accounts, transactions, req, locals, initial, ncalls, sums,
                 queryVars, authVars>>

StmtFails_Hangs(p) ==
  /\ pc[p] \in SelectPcs \cup UpdatePcs \cup InsertPcs
  /\ pc' = [pc EXCEPT ![p] = "hung"]
  /\ obs' = Stmt(p)
  /\ UNCHANGED <<accounts, transactions, seq, req, locals, result, initial,
                 ncalls, sums, queryVars, authVars>>

\* conn.Query / rows.Scan / conn.Exec returns an error (timeout of the 5 s
\* context, busy or broken connection): the function returns it at once.
\* A failed INSERT may already have drawn a value from the SERIAL.
StmtFails(p) ==
  /\ pc[p] \in SelectPcs \cup UpdatePcs \cup InsertPcs
  /\ Finish(p, ErrDb)
  /\ obs' = Stmt(p)
  /\ seq' \in (IF pc[p] \in InsertPcs THEN {seq, seq + 1} ELSE {seq})
  /\ UNCHANGED <<accounts, transactions, req, locals, initial, ncalls, sums,
                 queryVars, authVars>>

(* --------------------------- specifications ---------------------------- *)
DepositSteps(p) ==
  /\ \/ DepositCall(p)
     \/ DepositSelect(p)
     \/ DepositUpdate(p)
     \/ DepositInsert(p)
  /\ UNCHANGED <<queryVars, authVars>>

WithdrawSteps(p) ==
  /\ \/ WithdrawCall(p)
     \/ WithdrawSelect(p)
     \/ WithdrawUpdate(p)
     \/ WithdrawInsert(p)
  /\ UNCHANGED <<queryVars, authVars>>

TransferSteps(p) ==
  /\ \/ TransferCall(p)
     \/ TransferSelectFrom(p)
     \/ TransferSelectTo(p)
     \/ TransferUpdateFrom(p)
     \/ TransferUpdateTo(p)
     \/ TransferInsert(p)
  /\ UNCHANGED <<queryVars, authVars>>

\* every request goroutine, every outcome of every statement
Next ==
  \E p \in Procs :
    \/ DepositSteps(p)
    \/ WithdrawSteps(p)
    \/ TransferSteps(p)
    \/ StmtFails(p)

Spec == Init /\ [][Next]_vars

\* the same program while every statement succeeds
NextReliable ==
  \E p \in Procs :
    \/ DepositSteps(p)
    \/ WithdrawSteps(p)
    \/ TransferSteps(p)

SpecReliable == Init /\ [][NextReliable]_vars

\* the statement a call is at returns, with or without an error
Running(p) ==
  /\ pc[p] \notin {"idle", "done"}
  /\ \/ DepositSteps(p)
     \/ WithdrawSteps(p)
     \/ TransferSteps(p)
     \/ StmtFails(p)

\* every request has a goroutine of its own, which ends when its handler
\* returns
NextFair ==
  \E p \in Procs :
    /\ pc[p] # "done"
    /\ \/ DepositSteps(p)
       \/ WithdrawSteps(p)
       \/ TransferSteps(p)
       \/ StmtFails(p)

\* the Go scheduler runs every request goroutine, and every statement
\* returns: at the latest when its 5 s context expires
SpecFair == Init /\ [][NextFair]_vars /\ \A p \in Procs : WF_vars(Running(p))

\* requests arrive one after the other, none while another is running, and
\* every Transfer names two distinct accounts that exist; statements may
\* return errors
NextSeq ==
  \E p \in Procs :
    /\ \A q \in Procs \ {p} : pc[q] \in {"idle", "done"}
    /\ \/ DepositSteps(p)
       \/ WithdrawSteps(p)
       \/ /\ TransferSteps(p)
          /\ req'[p].fromId # req'[p].toId
          /\ req'[p].toId \in DOMAIN accounts
       \/ StmtFails(p)

SpecSeq == Init /\ [][NextSeq]_vars

\* the same requests while every statement succeeds
NextSeqReliable ==
  \E p \in Procs :
    /\ \A q \in Procs \ {p} : pc[q] \in {"idle", "done"}
    /\ \/ DepositSteps(p)
       \/ WithdrawSteps(p)
       \/ /\ TransferSteps(p)
          /\ req'[p].fromId # req'[p].toId
          /\ req'[p].toId \in DOMAIN accounts

SpecSeqReliable == Init /\ [][NextSeqReliable]_vars

\* only Deposit and Withdraw requests arrive, every statement succeeds
NextDW ==
  \E p \in Procs :
    \/ DepositSteps(p)
    \/ WithdrawSteps(p)

SpecDW == Init /\ [][NextDW]_vars

QuerySteps(p) ==
  /\ \/ ListTransactionsCall(p)
     \/ ListTransactionsSelect(p)
     \/ GetTransactionCall(p)
     \/ GetTransactionSelect(p)
  /\ UNCHANGED authVars

\* one goroutine runs ledger operations, one after the other, while the
\* others run the two queries; of the statements only those of the queries
\* may return an error
NextQuery ==
  \/ DepositSteps(1)
  \/ WithdrawSteps(1)
  \/ TransferSteps(1)
  \/ \E p \in Procs \ {1} :
       \/ QuerySteps(p)
       \/ (pc[p] \in {"l_select", "g_select"} /\ StmtFails(p))

SpecQuery == Init /\ [][NextQuery]_vars

AccountPcs == {"r_unique", "r_insert", "lg_select", "tv_select", "dt_insert",
               "gp_select", "up_unique", "up_update", "pw_select", "pw_update"}

AccountStmtFails_ReportsOk(p) ==
  /\ pc[p] \in AccountPcs
  /\ AccountStep(p, "done", Ok)
  /\ accSeq' \in (IF pc[p] = "r_insert" THEN {accSeq, accSeq + 1} ELSE {accSeq})
  /\ UNCHANGED <<accounts, logins, passwords, tokens, password>>

\* the statement of an account, profile or token call returns an error: the
\* function returns it at once. A failed INSERT INTO accounts may already
\* have drawn a value from the SERIAL.
AccountStmtFails(p) ==
  /\ pc[p] \in AccountPcs
  /\ AccountStep(p, "done", ErrDb)
  /\ accSeq' \in (IF pc[p] = "r_insert" THEN {accSeq, accSeq + 1} ELSE {accSeq})
  /\ UNCHANGED <<accounts, logins, passwords, tokens, password>>

AccountSteps(p) ==
  \/ RegisterCall(p)
  \/ RegisterUnique(p)
  \/ RegisterInsert(p)
  \/ LoginCall(p)
  \/ LoginSelect(p)
  \/ IsTokenValidCall(p)
  \/ IsTokenValidSelect(p)
  \/ DisableTokenCall(p)
  \/ DisableTokenInsert(p)
  \/ GetProfileCall(p)
  \/ GetProfileSelect(p)
  \/ UpdateProfileCall(p)
  \/ UpdateProfileUnique(p)
  \/ UpdateProfileUpdate(p)
  \/ UpdatePasswordCall(p)
  \/ UpdatePasswordSelect(p)
  \/ UpdatePasswordUpdate(p)

\* every route of the server: one goroutine runs ledger operations while
\* the others run the queries and the account, profile and token calls,
\* MaxQueries of them in all; every statement succeeds
NextAccounts ==
  \/ DepositSteps(1)
  \/ WithdrawSteps(1)
  \/ TransferSteps(1)
  \/ \E p \in Procs \ {1} :
       \/ QuerySteps(p)
       \/ ((nqueries < MaxQueries \/ pc[p] \in AccountPcs) /\ AccountSteps(p))

SpecAccounts == Init /\ [][NextAccounts]_vars

\* requests that log out (DisableToken) and requests that pass the jwtAuth
\* middleware (IsTokenValid), from every goroutine; statements may fail
NextTokens ==
  \E p \in Procs :
    \/ DisableTokenCall(p)
    \/ DisableTokenInsert(p)
    \/ IsTokenValidCall(p)
    \/ IsTokenValidSelect(p)
    \/ (pc[p] \in {"tv_select", "dt_insert"} /\ AccountStmtFails(p))

SpecTokens == Init /\ [][NextTokens]_vars

\* concurrent Register and UpdateProfile requests, every statement succeeds
NextLogins ==
  \E p \in Procs :
    \/ RegisterCall(p)
    \/ RegisterUnique(p)
    \/ RegisterInsert(p)
    \/ UpdateProfileCall(p)
    \/ UpdateProfileUnique(p)
    \/ UpdateProfileUpdate(p)

SpecLogins == Init /\ [][NextLogins]_vars

(* ------------------------------ properties ----------------------------- *)
Done(p) == pc[p] = "done"
Debits == {"Withdraw", "Transfer"}

\* C1: when only Deposits and Withdraws run and none is in progress, every
\* balance is the initial balance plus the successful deposits minus the
\* successful withdrawals on that account (no lost update).
C1_NoLostUpdate ==
  Quiescent =>
    \A a \in Accounts :
      accounts[a] = initial[a] + okDeposits[a] - okWithdraws[a]

\* C2: when no operation is in progress, the sum of all balances is the
\* initial sum plus successful deposits minus successful withdrawals;
\* transfers contribute nothing.
C2_MoneyConserved ==
  Quiescent =>
    Total(accounts) = Total(initial) + Total(okDeposits) - Total(okWithdraws)

\* C3: every stored balance is >= 0 in every reachable state.
C3_BalanceNonNegative == \A a \in Accounts : accounts[a] >= 0

\* a concurrent Withdraw or Transfer has emptied its source account
C3_Witness ==
  \E p \in Procs :
    /\ Done(p) /\ result[p] = Ok /\ req[p].kind \in Debits
    /\ ~obs[p].solo
    /\ accounts[req[p].fromId] = 0

\* C4: a Withdraw or Transfer whose amount is greater than the balance its
\* source holds when the call checks for sufficient funds fails, and none of
\* its balance writes or its log append happens.
C4_InsufficientFundsFails ==
  \A p \in Procs :
    (/\ req[p].kind \in Debits
     /\ obs[p].atCheck >= 0
     /\ req[p].amount > obs[p].atCheck)
    => /\ Done(p)
       /\ result[p] \notin {Ok, None}
       /\ obs[p].effects = {}

\* C5: a Deposit, Withdraw or Transfer with amount <= 0 has returned the
\* invalid-amount error without issuing one statement; balances and log are
\* those of the moment it was called.
C5_InvalidAmountRejected ==
  \A p \in Procs :
    (req[p].kind \in {"Deposit", "Withdraw", "Transfer"}
     /\ req[p].amount <= 0)
    => /\ Done(p)
       /\ result[p] = ErrInvalidAmount
       /\ obs[p].stmts = 0
       /\ obs[p].effects = {}
       /\ obs[p].solo => (accounts = obs[p].pre
                          /\ Len(transactions) = obs[p].preLog)

\* each of the three operations was called with amount 0
C5_Witness ==
  \E p, q \in Procs :
    /\ Done(p) /\ req[p].kind = "Deposit" /\ req[p].amount = 0
    /\ Done(q) /\ req[q].kind \in Debits /\ req[q].amount <= 0

\* C6: a Transfer that has ended did all of debit, credit and log append,
\* or none of them.
C6_TransferAllOrNothing ==
  \A p \in Procs :
    (Done(p) /\ req[p].kind = "Transfer")
    => obs[p].effects \in {{}, {"debit", "credit", "insert"}}

\* C7: after a self-transfer Transfer(A, A, amount), amount > 0, run with no
\* other call, the balance of A is what it was before.
C7_SelfTransferConserves ==
  \A p \in Procs :
    (/\ Done(p) /\ obs[p].solo /\ req[p].kind = "Transfer"
     /\ req[p].fromId = req[p].toId /\ req[p].amount > 0)
    => accounts[req[p].fromId] = obs[p].pre[req[p].fromId]

\* C8: when Transfer(A,B,x) and Transfer(B,A,x) are the only two calls, both
\* balances were >= x, and both have ended, the balances are the initial ones
\* and the log holds exactly two entries.
C8_OppositeTransfersNetZero ==
  \A p, q \in Procs :
    (/\ p # q /\ ncalls = 2 /\ Done(p) /\ Done(q)
     /\ req[p].kind = "Transfer" /\ req[q].kind = "Transfer"
     /\ req[p].fromId = req[q].toId /\ req[p].toId = req[q].fromId
     /\ req[p].fromId # req[p].toId
     /\ req[p].amount = req[q].amount /\ req[p].amount > 0
     /\ initial[req[p].fromId] >= req[p].amount
     /\ initial[req[q].fromId] >= req[q].amount)
    => /\ accounts = initial
       /\ Len(transactions) = 2

\* the case of C9: a finished Transfer, run with no other call, between two
\* distinct existing accounts, amount > 0, balance(from) >= amount, none of
\* whose statements returned an error
C9_Case(p) ==
  /\ Done(p) /\ obs[p].solo /\ req[p].kind = "Transfer"
  /\ req[p].fromId # req[p].toId /\ req[p].toId \in Accounts
  /\ req[p].amount > 0
  /\ obs[p].pre[req[p].fromId] >= req[p].amount
  /\ result[p] # ErrDb

\* C9: a Transfer between two distinct existing accounts, amount > 0,
\* balance(from) >= amount, run with no other call, succeeds, takes exactly
\* amount from `from`, adds exactly amount to `to` and changes no other
\* balance.
C9_TransferMovesAmount ==
  \A p \in Procs :
    C9_Case(p)
    => /\ result[p] = Ok
       /\ accounts = [obs[p].pre EXCEPT ![req[p].fromId] = @ - req[p].amount,
                                        ![req[p].toId] = @ + req[p].amount]

\* such a Transfer has run after another call left its mark on the balances
C9_Witness ==
  \E p \in Procs :
    /\ C9_Case(p)
    /\ obs[p].pre # initial
    /\ accounts[req[p].toId] > 1

\* C10: a successful Transfer(from, to, amount), run with no other call, has
\* appended exactly one transaction: kind Transfer, source from,
\* destination to, the amount.
C10_TransferLogsTransfer ==
  \A p \in Procs :
    (/\ Done(p) /\ obs[p].solo /\ req[p].kind = "Transfer"
     /\ result[p] = Ok)
    => /\ Len(transactions) = obs[p].preLog + 1
       /\ LET t == transactions[Len(transactions)] IN
            /\ t.type = "Transfer"
            /\ t.from = req[p].fromId
            /\ t.to = req[p].toId
            /\ t.amount = req[p].amount

\* rows of the log whose id is in the set ids
RowsWithId(ids) == {i \in 1..Len(transactions) : transactions[i].id \in ids}

\* C11: a Deposit or Withdraw that returned nil inserted exactly one row, of
\* its own kind, with source = destination = its account and its amount; one
\* that returned an error inserted none.
C11_DepositWithdrawLogged ==
  \A p \in Procs :
    (Done(p) /\ req[p].kind \in {"Deposit", "Withdraw"})
    => IF result[p] = Ok
         THEN /\ Cardinality(obs[p].rows) = 1
              /\ Cardinality(RowsWithId(obs[p].rows)) = 1
              /\ \A i \in RowsWithId(obs[p].rows) :
                   /\ transactions[i].type = req[p].kind
                   /\ transactions[i].from = req[p].fromId
                   /\ transactions[i].to = req[p].fromId
                   /\ transactions[i].amount = req[p].amount
              /\ obs[p].solo => Len(transactions) = obs[p].preLog + 1
         ELSE /\ obs[p].rows = {}
              /\ obs[p].solo => Len(transactions) = obs[p].preLog

\* a Withdraw succeeded while a Deposit failed after its balance write
C11_Witness ==
  \E p, q \in Procs :
    /\ Done(p) /\ req[p].kind = "Withdraw" /\ result[p] = Ok
    /\ Done(q) /\ req[q].kind = "Deposit" /\ result[q] = ErrDb
    /\ "credit" \in obs[q].effects

Queries == {"ListTransactions", "GetTransaction"}

\* account is source or destination of a row of log with identifier tid
Participant(log, account, tid) ==
  \E i \in 1..Len(log) :
    /\ log[i].id = tid
    /\ log[i].from = account \/ log[i].to = account

\* C12: GetTransaction(account, transactionId) by an account that is not
\* source or destination of a transaction with that identifier (there may be
\* none) ends with the access-denied error, unless the statement itself
\* failed; it never returns nil.
C12_GetTransactionDenied ==
  \A p \in Procs :
    (/\ Done(p) /\ req[p].kind = "GetTransaction"
     /\ result[p] # ErrDb
     /\ ~Participant(obs[p].log, req[p].id, req[p].transactionId))
    => result[p] = ErrAccessDenied

\* C13: GetTransaction(account, transactionId) by the source or destination
\* of the logged transaction transactionId returns that transaction: same
\* identifier, kind and amount.
C13_GetTransactionReturns ==
  \A p \in Procs :
    (/\ Done(p) /\ req[p].kind = "GetTransaction"
     /\ result[p] # ErrDb
     /\ Participant(obs[p].log, req[p].id, req[p].transactionId))
    => /\ result[p] = Ok
       /\ Len(view[p]) = 1
       /\ \E i \in 1..Len(obs[p].log) :
            /\ obs[p].log[i].id = req[p].transactionId
            /\ view[p][1].Id = obs[p].log[i].id
            /\ view[p][1].TransactionType = obs[p].log[i].type
            /\ view[p][1].Amount = obs[p].log[i].amount

\* C14: ListTransactions(account) returns every logged transaction in which
\* account is source or destination exactly once, with its kind and amount,
\* and nothing else.
C14_ListExactlyParticipating ==
  \A p \in Procs :
    (Done(p) /\ req[p].kind = "ListTransactions" /\ result[p] = Ok)
    => LET log == obs[p].log
           hits(i) == {k \in 1..Len(view[p]) : view[p][k].Id = log[i].id}
       IN /\ \A i \in 1..Len(log) :
               IF log[i].from = req[p].id \/ log[i].to = req[p].id
                 THEN /\ Cardinality(hits(i)) = 1
                      /\ \A k \in hits(i) :
                           /\ view[p][k].TransactionType = log[i].type
                           /\ view[p][k].Amount = log[i].amount
                 ELSE hits(i) = {}
          /\ \A k \in 1..Len(view[p]) :
               \E i \in 1..Len(log) : view[p][k].Id = log[i].id

\* a list that holds a transfer received by the account and leaves out a
\* row of the other account
C14_Witness ==
  \E p \in Procs :
    /\ Done(p) /\ req[p].kind = "ListTransactions" /\ result[p] = Ok
    /\ Len(view[p]) = 1 /\ Len(obs[p].log) = 2
    /\ \E i \in 1..2 : /\ obs[p].log[i].to = req[p].id
                       /\ obs[p].log[i].from # req[p].id

\* C15: the sequence ListTransactions returns is in ascending order of
\* transaction identifier, whatever order the store returns the rows in.
C15_ListAscending ==
  \A p \in Procs :
    (Done(p) /\ req[p].kind = "ListTransactions" /\ result[p] = Ok)
    => \A k, l \in 1..Len(view[p]) :
         k < l => view[p][k].Id < view[p][l].Id

\* C16: a view returned by ListTransactions or GetTransaction carries the
\* source and destination of its stored transaction when they differ, and
\* zero for both when they are equal.
C16_ViewEndpoints ==
  \A p \in Procs :
    (Done(p) /\ req[p].kind \in Queries /\ result[p] = Ok)
    => \A k \in 1..Len(view[p]) :
         \A i \in 1..Len(obs[p].log) :
           obs[p].log[i].id = view[p][k].Id
           => IF obs[p].log[i].from # obs[p].log[i].to
                THEN /\ view[p][k].FromId = obs[p].log[i].from
                     /\ view[p][k].ToId = obs[p].log[i].to
                ELSE /\ view[p][k].FromId = 0
                     /\ view[p][k].ToId = 0

\* one list holds a self-operation and a true transfer
C16_Witness ==
  \E p \in Procs :
    /\ Done(p) /\ req[p].kind = "ListTransactions" /\ result[p] = Ok
    /\ \E k, l \in 1..Len(view[p]) :
         /\ view[p][k].FromId = 0 /\ view[p][k].ToId = 0
         /\ view[p][l].FromId # 0 /\ view[p][l].ToId # 0

\* C17: identifiers in the log are strictly increasing in append order, so
\* no two rows share one.
C17_IdsStrictlyIncreasing ==
  \A i, j \in 1..Len(transactions) :
    i < j => transactions[i].id < transactions[j].id

\* two overlapping calls of different kinds have both appended a row
C17_Witness ==
  \E p, q \in Procs :
    /\ Done(p) /\ Done(q) /\ result[p] = Ok /\ result[q] = Ok
    /\ ~obs[p].solo /\ ~obs[q].solo
    /\ req[p].kind = "Deposit" /\ req[q].kind = "Transfer"
    /\ req[p].fromId # req[q].fromId
    /\ Len(transactions) = 2

\* C18: every step keeps every row of the log, in place and unchanged; the
\* log only grows at its end.
C18_AppendOnly ==
  [][/\ Len(transactions') >= Len(transactions)
     /\ \A i \in 1..Len(transactions) : transactions'[i] = transactions[i]]_vars

\* a second row was appended behind a first one
C18_Witness ==
  /\ Len(transactions) = 2
  /\ \E p, q \in Procs :
       /\ p # q /\ Done(p) /\ Done(q)
       /\ obs[p].rows # {} /\ obs[q].rows # {}

LedgerKinds == {"Deposit", "Withdraw", "Transfer"}

\* number of statements each operation runs before it returns nil
FullRun(kind) == IF kind = "Transfer" THEN 5 ELSE 3

\* C19: a Deposit, Withdraw or Transfer that returned nil has run all its
\* statements: its UPDATEs were applied to every row they address and its
\* row is in the log; a call whose balance write was applied and whose
\* INSERT was not has returned an error.
C19_SuccessAfterWrites ==
  \A p \in Procs :
    (Done(p) /\ req[p].kind \in LedgerKinds)
    => /\ result[p] = Ok =>
            /\ obs[p].stmts = FullRun(req[p].kind)
            /\ "insert" \in obs[p].effects
            /\ RowsWithId(obs[p].rows) # {}
            /\ req[p].kind = "Deposit" => "credit" \in obs[p].effects
            /\ req[p].kind \in Debits => "debit" \in obs[p].effects
            /\ (req[p].kind = "Transfer" /\ req[p].toId \in DOMAIN accounts)
                 => "credit" \in obs[p].effects
       /\ (obs[p].effects # {} /\ "insert" \notin obs[p].effects)
            => result[p] \notin {Ok, None}

\* the INSERT of a Transfer failed after both balances were written
C19_Witness ==
  \E p \in Procs :
    /\ Done(p) /\ req[p].kind = "Transfer" /\ result[p] = ErrDb
    /\ obs[p].effects = {"debit", "credit"}

NonLedgerKinds == {"Register", "Login", "DisableToken", "IsTokenValid",
                   "GetProfile", "UpdateProfile", "UpdatePassword",
                   "ListTransactions", "GetTransaction"}

\* C20: no step deletes an accounts row, and a step of Register, Login,
\* DisableToken, IsTokenValid, GetProfile, UpdateProfile, UpdatePassword,
\* ListTransactions or GetTransaction leaves the balance of every existing
\* account as it was; the only row such a step adds is the one Register
\* creates, with balance 0.
C20_OnlyLedgerChangesBalances ==
  [][/\ DOMAIN accounts \subseteq DOMAIN accounts'
     /\ \A p \in Procs :
          (pc'[p] # pc[p] /\ req'[p].kind \in NonLedgerKinds) =>
            /\ \A id \in DOMAIN accounts : accounts'[id] = accounts[id]
            /\ \A id \in DOMAIN accounts' \ DOMAIN accounts :
                 accounts'[id] = 0 /\ req'[p].kind = "Register"]_vars

\* Register has created an account after a ledger operation changed the
\* balance of an existing one
C20_Witness ==
  /\ Cardinality(DOMAIN accounts) > NumAccounts
  /\ \E id \in Accounts : accounts[id] # initial[id] /\ accounts[id] > 0
  /\ \E p \in Procs : Done(p) /\ req[p].kind = "Register" /\ result[p] = Ok

\* C21: under fair scheduling every Deposit, Withdraw and Transfer that is
\* in progress eventually returns, whatever the other goroutines do; no
\* call waits forever on another.
C21_OperationsTerminate ==
  \A p \in Procs : (pc[p] \notin {"idle", "done"}) ~> (pc[p] = "done")

\* two Transfers in opposite directions between the same two accounts,
\* each about to write its second balance
C21_Witness ==
  \E p, q \in Procs :
    /\ pc[p] = "t_updateTo" /\ pc[q] = "t_updateTo"
    /\ req[p].fromId # req[p].toId
    /\ req[p].fromId = req[q].toId /\ req[p].toId = req[q].fromId

\* C22: a Withdraw or Transfer that returned success wrote its debit at a
\* moment when the stored balance of its source was at least the amount.
C22_SufficientAtCommit ==
  \A p \in Procs :
    (Done(p) /\ result[p] = Ok /\ req[p].kind \in Debits)
    => obs[p].atDebit >= req[p].amount

\* C23: a Transfer whose destination id has no row in accounts has failed
\* when it returns, and has written no balance and appended no transaction.
C23_TransferToMissingFails ==
  \A p \in Procs :
    (Done(p) /\ req[p].kind = "Transfer"
     /\ req[p].toId \notin DOMAIN accounts)
    => /\ result[p] # Ok
       /\ obs[p].effects = {}

\* C24: the first balance a Transfer between two distinct existing accounts
\* writes is that of the account with the smaller id: the debit when
\* from < to, the credit when to < from.
C24_AscendingWriteOrder ==
  [][\A p \in Procs :
       (/\ req[p].kind = "Transfer"
        /\ req[p].fromId # req[p].toId
        /\ req[p].toId \in DOMAIN accounts
        /\ obs[p].effects = {}
        /\ obs'[p].effects # {}
        /\ req'[p] = req[p])
       => obs'[p].effects =
            (IF req[p].fromId < req[p].toId THEN {"debit"} ELSE {"credit"})]_vars

\* a logged record that credits / debits account a
Crediting(r, a) ==
  \/ r.from = a /\ r.to = a /\ r.type = "Deposit"
  \/ r.to = a /\ r.from # a
Debiting(r, a) ==
  \/ r.from = a /\ r.to = a /\ r.type = "Withdraw"
  \/ r.from = a /\ r.to # a

RECURSIVE LoggedNet(_, _)
LoggedNet(log, a) ==
  IF log = <<>> THEN 0
  ELSE LET r == Head(log) IN
         (IF Crediting(r, a) THEN r.amount ELSE 0)
         - (IF Debiting(r, a) THEN r.amount ELSE 0)
         + LoggedNet(Tail(log), a)

\* C25: when calls never overlap and every Transfer is between two distinct
\* existing accounts, then whenever no call is in progress each balance is
\* the initial balance plus the logged credits minus the logged debits.
C25_BalanceMatchesLog ==
  Quiescent =>
    \A a \in Accounts :
      accounts[a] = initial[a] + LoggedNet(transactions, a)

\* C26: no step removes a token from the tokens table, and an IsTokenValid
\* that returns while its token is in the table returns an error (on which
\* jwtAuth aborts the request before the handler runs).
C26_RevocationPermanent ==
  [][/\ tokens \subseteq tokens'
     /\ \A p \in Procs :
          (/\ req[p].kind = "IsTokenValid"
           /\ pc[p] = "tv_select" /\ pc'[p] = "done"
           /\ req[p].token \in tokens)
          => result'[p] \notin {Ok, None}]_vars

\* an IsTokenValid has turned down a token that a DisableToken disabled
C26_Witness ==
  \E p, q \in Procs :
    /\ Done(p) /\ req[p].kind = "IsTokenValid"
    /\ result[p] = ErrTokenInvalid
    /\ Done(q) /\ req[q].kind = "DisableToken" /\ result[q] = Ok
    /\ req[p].token = req[q].token /\ req[p].token \in tokens

\* C27: no two rows of accounts have the same login.
C27_LoginsUnique ==
  \A i, j \in DOMAIN logins : i # j => logins[i] # logins[j]

====
